---- MODULE Spec2Model ----
(***************************************************************************)
(* dugaire: a CLI that composes a Dockerfile from flags (build) and asks    *)
(* the container runtime to build it, and that lists the images carrying   *)
(* its marker label (list).  Model of src/dugaire/dugaire.py.               *)
(*                                                                         *)
(* A Python str is a sequence of pieces (characters where the code slices  *)
(* or searches inside the text, whole words elsewhere); + and f-strings   *)
(* are \o.  An optional click parameter is a sequence of length 0 (None)   *)
(* or 1 (the str that was passed).                                         *)
(***************************************************************************)
EXTENDS Naturals, Sequences, FiniteSets

VARIABLES
    images,   \* the container runtime's image store (owned by the runtime)
    cmd,      \* the command of the last invocation: "none", "build", "list"
    req,      \* the parameters the last invocation's handler received
    trace,    \* the external calls the last invocation made, in order
    stdout,   \* what the last invocation printed, in order
    built,    \* the image object the build call returned (<<>>: none)
    raised,   \* the exception that ended the last invocation (<<>>: none)
    runs      \* invocations so far

vars == <<images, cmd, req, trace, stdout, built, raised, runs>>

(***************************** bounds **************************************)
\* Invocations of the command line in one behaviour.
MaxRuns == 2
\* Images the runtime may hold.
MaxImages == 3
\* Hex digits of an image digest (64 in a real runtime; more than ShortLen).
DigestLen == 14

(************************* Python str helpers ******************************)
None == <<>>
Some(s) == <<s>>

\* Python truthiness of an optional str: None and '' are falsy.
Truthy(o) == o # None /\ o[1] # <<>>

Min(a, b) == IF a <= b THEN a ELSE b

\* s[:n]
Take(s, n) == SubSeq(s, 1, Min(n, Len(s)))

\* s[n:]
Drop(s, n) == SubSeq(s, Min(n, Len(s)) + 1, Len(s))

StartsWith(s, p) == Len(p) <= Len(s) /\ SubSeq(s, 1, Len(p)) = p

\* p in s
Contains(s, p) == \E i \in 0..(Len(s) - Len(p)) : SubSeq(s, i + 1, i + Len(p)) = p

\* s.find(p) + 1 (0 when p is not in s)
IndexOf(s, p) ==
    IF Contains(s, p)
    THEN CHOOSE i \in 1..(Len(s) - Len(p) + 1) :
            /\ SubSeq(s, i, i + Len(p) - 1) = p
            /\ \A j \in 1..(i - 1) : SubSeq(s, j, j + Len(p) - 1) # p
    ELSE 0

\* s.replace(old, new): every non-overlapping occurrence, left to right.
RECURSIVE Replace(_, _, _)
Replace(s, old, new) ==
    IF s = <<>> THEN <<>>
    ELSE IF old # <<>> /\ StartsWith(s, old)
         THEN new \o Replace(Drop(s, Len(old)), old, new)
         ELSE <<Head(s)>> \o Replace(Tail(s), old, new)

(*************************** util (templates) ******************************)
\* util.get_dugaire_image_label(fmt): the marker label, as a Dockerfile LABEL
\* argument or (the default) as a list filter.
MarkerLabel == "builtwith=dugaire"
get_dugaire_image_label(fmt) ==
    IF fmt = "dockerfile" THEN <<"builtwith=", "\"dugaire\"">> ELSE <<MarkerLabel>>

\* The first piece of each template's text.
BaseMarker == "FROM "
AptMarker == "RUN apt-get update && apt-get install -y "
PipMarker == "RUN pip3 install "
KubectlMarker == "RUN curl -LO "

\* base.j2
RenderBase(from_, label) == <<BaseMarker>> \o from_ \o <<"\n", "LABEL ">> \o label \o <<"\n">>
\* apt.j2
RenderApt(packages) == <<AptMarker>> \o packages \o <<"\n">>
\* pip3.j2
RenderPip3(packages) == <<PipMarker>> \o packages \o <<"\n">>
\* with_kubectl.j2
RenderKubectl(url) ==
    <<KubectlMarker>> \o url \o <<"\n", "RUN chmod +x ./kubectl && mv ./kubectl /usr/local/bin/kubectl", "\n">>

(****************************** build: composer ****************************)
ReleaseBase == "https://storage.googleapis.com/kubernetes-release/release/"
\* The command the image build runs to find the latest stable release.
StableLookup == "$(curl -s https://storage.googleapis.com/kubernetes-release/release/stable.txt)"
KubectlPath == "/bin/linux/amd64/kubectl"
Latest == <<"latest">>

\* Mutant of KubectlUrl: the version goes into the url without its 'v'.
KubectlUrlNoV(with_kubectl) ==
    IF with_kubectl[1] # Latest
    THEN <<ReleaseBase>> \o with_kubectl[1] \o <<KubectlPath>>
    ELSE <<ReleaseBase, StableLookup, KubectlPath>>

\* The url of the kubectl fragment.
KubectlUrl(with_kubectl) ==
    IF with_kubectl[1] # Latest
    THEN <<ReleaseBase, "v">> \o with_kubectl[1] \o <<KubectlPath>>
    ELSE <<ReleaseBase, StableLookup, KubectlPath>>

\* packages = apt.replace(',', ' ')
Packages(list) == Replace(list, <<",">>, <<" ">>)

AptFragment(apt) == IF Truthy(apt) THEN RenderApt(Packages(apt[1])) ELSE <<>>
Pip3Fragment(pip3) == IF Truthy(pip3) THEN RenderPip3(Packages(pip3[1])) ELSE <<>>
KubectlFragment(with_kubectl) ==
    IF Truthy(with_kubectl) THEN RenderKubectl(KubectlUrl(with_kubectl)) ELSE <<>>

\* Mutant of Dockerfile: the pip block comes before the apt block.
DockerfilePipFirst(from_, apt, pip3, with_kubectl) ==
    RenderBase(from_, get_dugaire_image_label("dockerfile"))
    \o Pip3Fragment(pip3) \o AptFragment(apt) \o KubectlFragment(with_kubectl)

\* Mutant of Dockerfile: the pip block is entered on apt and pip3.
DockerfilePipNeedsApt(from_, apt, pip3, with_kubectl) ==
    RenderBase(from_, get_dugaire_image_label("dockerfile"))
    \o AptFragment(apt)
    \o (IF Truthy(apt) THEN Pip3Fragment(pip3) ELSE <<>>)
    \o KubectlFragment(with_kubectl)

\* The Dockerfile text build() assembles, fragment after fragment.
Dockerfile(from_, apt, pip3, with_kubectl) ==
    LET d0 == <<>>
        d1 == d0 \o RenderBase(from_, get_dugaire_image_label("dockerfile"))
        d2 == d1 \o AptFragment(apt)
        d3 == d2 \o Pip3Fragment(pip3)
        d4 == d3 \o KubectlFragment(with_kubectl)
    IN  d4

(************************* the container runtime ***************************)
\* The runtime is an external collaborator: what it holds and what it answers
\* is its own choice, within what the Docker API promises.
Sha256Prefix == <<"s", "h", "a", "2", "5", "6", ":">>
Hex == <<"0", "1", "2", "3", "4", "5", "6", "7", "8", "9", "a", "b", "c", "d", "e", "f">>

\* The identifier of the k-th image of the store: 'sha256:' and a hex digest.
ImageId(k) == Sha256Prefix \o [i \in 1..DigestLen |-> Hex[((i * (k + 1)) % 16) + 1]]

\* An image some other tool built: it carries no marker label.
ForeignImage == [id |-> ImageId(0), tags |-> << <<"ubuntu:18.04">> >>, labels |-> {}]

\* An image an earlier invocation of this tool built.
EarlierImage == [id |-> ImageId(1), tags |-> << <<"earlier:1">> >>, labels |-> {MarkerLabel}]

\* The labels the runtime gives an image built from the Dockerfile text df.
ParseLabels(df) ==
    IF Contains(df, <<"LABEL ">> \o get_dugaire_image_label("dockerfile"))
    THEN {MarkerLabel} ELSE {}

Without(tags, tag) == SelectSeq(tags, LAMBDA t : t # tag)

\* A tag names one image: tagging an image takes the tag from the others.
Untag(store, tag) == [i \in DOMAIN store |-> [store[i] EXCEPT !.tags = Without(@, tag)]]

\* The tag lists an image may report once it carries tag as well: the order
\* of RepoTags is the runtime's.
Retagged(tags, tag) == {<<tag>> \o Without(tags, tag), Without(tags, tag) \o <<tag>>}

\* client.images.build(fileobj=df, tag=tag), when it succeeds: the stores the
\* runtime may end in, each with the place of the image it answers with.  The
\* build yields a new image, or (layer cache) an image the runtime holds.
BuildResults(store, df, tag) ==
    {[store |-> Append(Untag(store, tag),
                       [id |-> ImageId(Len(store) + 1), tags |-> <<tag>>,
                        labels |-> ParseLabels(df)]),
      at |-> Len(store) + 1] : n \in {m \in {Len(store)} : m < MaxImages}}
    \cup
    UNION {{[store |-> [Untag(store, tag) EXCEPT ![i].tags = tags], at |-> i] :
                tags \in Retagged(store[i].tags, tag)} :
           i \in {j \in DOMAIN store :
                    store[j].labels = ParseLabels(df)}}

\* The exceptions docker raises for a failed call.
DockerErrors == {"docker.errors.BuildError", "docker.errors.APIError"}

\* client.images.list(filters={"label": [label]})
ListResult(store, label) == SelectSeq(store, LAMBDA im : label[1] \in im.labels)

(************************** build: the gateway *****************************)
\* str(uuid.uuid4()): 8-4-4-4-12 hex digits, here all digits c but the version.
Uuid(c) == [i \in 1..36 |-> IF i \in {9, 14, 19, 24} THEN "-" ELSE IF i = 15 THEN "4" ELSE c]
UuidPool == {Uuid("a"), Uuid("b")}

NameLen == 8
Random == <<"random">>

\* External calls, as the trace records them; err is the error the call
\* ended with ("": it returned).
FromEnv == [op |-> "docker.from_env", val |-> <<>>, fileobj |-> <<>>, err |-> ""]
Uuid4(u) == [op |-> "uuid.uuid4", val |-> u, fileobj |-> <<>>, err |-> ""]
ImagesBuild(tag, f) == [op |-> "images.build", val |-> tag, fileobj |-> f, err |-> ""]
ImagesList(label) == [op |-> "images.list", val |-> label, fileobj |-> <<>>, err |-> ""]

\* The trace when its last call ends with error e.
Failing(calls, e) == [calls EXCEPT ![Len(calls)].err = e]

\* Mutant of Raise: the handler wraps what it catches.
RaiseWrapped(e) == <<"click.ClickException">>

\* Neither handler catches anything: an exception of a call leaves the handler
\* as it is.
Raise(e) == <<e>>

\* Mutant of ShouldBuild: the flag is not looked at.
ShouldBuildAlways(dry_run) == TRUE

\* if not dry_run:
ShouldBuild(dry_run) == ~dry_run

\* if image_name == 'random':
IsRandom(name) == name = Random

\* Mutant of RandomName: one uuid serves for both parts.
RandomNameOneUuid(u1, u2) == <<"dug-">> \o Take(u1, NameLen) \o <<":">> \o Take(u1, NameLen)

\* f'dug-{random_name}:{random_tag}'
RandomName(u1, u2) == <<"dug-">> \o Take(u1, NameLen) \o <<":">> \o Take(u2, NameLen)

\* The calls build() makes up to and including the build call, given the
\* uuids the generator returns.
BuildCalls(name, u1, u2, dockerfile) ==
    IF IsRandom(name)
    THEN <<FromEnv, Uuid4(u1), Uuid4(u2), ImagesBuild(RandomName(u1, u2), dockerfile)>>
    ELSE <<FromEnv, ImagesBuild(name, dockerfile)>>

\* click.echo(message): None prints as an empty line.
Echo(message) == [kind |-> "echo", text |-> IF message = None THEN <<>> ELSE message[1], rows |-> <<>>]

\* The three output ifs that end build().
BuildOutput(output, image_id, image_name, dockerfile) ==
    (IF output = "image-id" THEN <<Echo(image_id)>> ELSE <<>>)
    \o (IF output = "image-name" THEN <<Echo(image_name)>> ELSE <<>>)
    \o (IF output = "dockerfile" THEN <<Echo(Some(dockerfile))>> ELSE <<>>)

\* Mutant of AttrsId: the prefix is stripped, as list_ does.
AttrsIdStripped(image) == Some(Replace(image.id, Sha256Prefix, <<>>))

\* Mutant of AttrsName: the last tag, not the first.
AttrsNameLast(image) == Some(image.tags[Len(image.tags)])

\* image.attrs["Id"]
AttrsId(image) == Some(image.id)
\* image.attrs["RepoTags"][0]
AttrsName(image) == Some(image.tags[1])

\* build(from_, apt, pip3, with_kubectl, name, dry_run, output)
build(from_, apt, pip3, with_kubectl, name, dry_run, output) ==
    LET dockerfile == Dockerfile(from_, apt, pip3, with_kubectl) IN
    /\ cmd' = "build"
    /\ req' = [from_ |-> from_, apt |-> apt, pip3 |-> pip3, with_kubectl |-> with_kubectl,
               name |-> name, dry_run |-> dry_run, output |-> output]
    /\ IF ShouldBuild(dry_run)
       THEN \E u1 \in (IF IsRandom(name) THEN UuidPool ELSE {<<>>}),
               u2 \in (IF IsRandom(name) THEN UuidPool ELSE {<<>>}) :
              LET calls == BuildCalls(name, u1, u2, dockerfile)
                  call == calls[Len(calls)]
              IN  \E ok \in BOOLEAN :
                       IF ok
                       THEN \E r \in BuildResults(images, call.fileobj, call.val) :
                              LET image == r.store[r.at] IN
                              /\ trace' = calls
                              /\ images' = r.store
                              /\ built' = <<image>>
                              /\ raised' = <<>>
                              /\ stdout' = BuildOutput(output, AttrsId(image),
                                                       AttrsName(image), dockerfile)
                       ELSE \E e \in DockerErrors :
                              /\ trace' = Failing(calls, e)
                              /\ raised' = Raise(e)
                              /\ stdout' = <<>>
                              /\ built' = <<>>
                              /\ UNCHANGED images
       ELSE /\ trace' = <<>>
            /\ stdout' = BuildOutput(output, None, None, dockerfile)
            /\ built' = <<>>
            /\ raised' = <<>>
            /\ UNCHANGED images

(********************************* list ************************************)
ShortLen == 12
\* @click.option('--short', '-s', default=True, is_flag=True): the value of
\* short.  Without the flag it is the default; the flag stores flag_value,
\* which click sets to (not default) when the option declares none.
ShortDefault == TRUE
ShortFlagValue == ~ShortDefault
ShortOption(flag) == IF flag THEN ShortFlagValue ELSE ShortDefault

\* image_id.replace('sha256:', '')[:12]
ShortId(image_id) == Take(Replace(image_id, Sha256Prefix, <<>>), ShortLen)

\* One row of print_images.
Row(image, short) == <<IF short THEN ShortId(image.id) ELSE image.id, image.tags>>

Headers == <<"Image ID", "Image tags">>
NoImagesMessage == <<"No images built with dugaire found.">>

\* util.custom_tabulate(rows, headers=headers), printed.
Tabulate(rows, headers) == [kind |-> "table", text |-> headers, rows |-> rows]

\* Mutant of ListOutput: the table is printed whatever its length.
ListOutputAlwaysTable(found, short) ==
    <<Tabulate([i \in DOMAIN found |-> Row(found[i], short)], Headers)>>

\* What list_ prints for the images the runtime returned.
ListOutput(found, short) ==
    LET print_images == [i \in DOMAIN found |-> Row(found[i], short)] IN
    IF Len(print_images) # 0
    THEN <<Tabulate(print_images, Headers)>>
    ELSE <<Echo(Some(NoImagesMessage))>>

\* list_(short)
list_(flag) ==
    LET short == ShortOption(flag)
        label == get_dugaire_image_label("filter")
        calls == <<FromEnv, ImagesList(label)>>
    IN  /\ cmd' = "list"
        /\ req' = [flag |-> flag, short |-> short]
        /\ built' = <<>>
        /\ UNCHANGED images
        /\ \E ok \in BOOLEAN :
             IF ok
             THEN /\ trace' = calls
                  /\ stdout' = ListOutput(ListResult(images, label), short)
                  /\ raised' = <<>>
             ELSE \E e \in DockerErrors :
                    /\ trace' = Failing(calls, e)
                    /\ raised' = Raise(e)
                    /\ stdout' = <<>>

(************************* the command line ********************************)
\* main(): the exit status of the process.  An exception that leaves cli()
\* ends the interpreter with status 1.
ExitCode == IF raised = <<>> THEN 0 ELSE 1

OutputChoices == {"image-id", "image-name", "dockerfile"}
FromDefault == <<"ubuntu:18.04">>

\* Values of the build options.
Froms == {FromDefault, <<"alpine:3.12">>}
PackageLists == {None, Some(<<>>), Some(<<"curl">>), Some(<<"curl", ",", "nano">>)}
Versions == {None, Some(<<>>), Some(Latest), Some(<<"1.17.0">>)}
Names == {Random, <<"myimage:0.0.1">>}

Init ==
    /\ images \in {<<>>, <<ForeignImage>>, <<ForeignImage, EarlierImage>>}
    /\ cmd = "none"
    /\ req = [none |-> TRUE]
    /\ trace = <<>>
    /\ stdout = <<>>
    /\ built = <<>>
    /\ raised = <<>>
    /\ runs = 0

\* dugaire build ...
BuildCmd ==
    /\ runs < MaxRuns
    /\ runs' = runs + 1
    /\ \E from_ \in {FromDefault}, apt \in {None, Some(<<"curl", ",", "nano">>)},
          pip3 \in {None}, with_kubectl \in {None},
          name \in Names, dry_run \in BOOLEAN, output \in OutputChoices :
           build(from_, apt, pip3, with_kubectl, name, dry_run, output)

\* dugaire list [--short]
ListCmd ==
    /\ runs < MaxRuns
    /\ runs' = runs + 1
    /\ \E flag \in BOOLEAN : list_(flag)

Next == BuildCmd \/ ListCmd

Spec == Init /\ [][Next]_vars

\* dugaire build --dry-run ..., over every combination of the composer's inputs.
ComposeCmd ==
    /\ UNCHANGED runs
    /\ \E from_ \in Froms, apt \in PackageLists, pip3 \in PackageLists,
          with_kubectl \in Versions, name \in Names, output \in OutputChoices :
           build(from_, apt, pip3, with_kubectl, name, TRUE, output)

InitCompose == Init /\ images = <<>>

SpecCompose == InitCompose /\ [][ComposeCmd]_vars

(******************************* claims ************************************)
\* The text the last invocation printed first.
Printed == stdout[1].text

BuildRan == cmd = "build"
DryRun == BuildRan /\ req.dry_run
\* A build --dry-run --output=dockerfile: its output is the composed text.
Composed == DryRun /\ req.output = "dockerfile"
\* The build call of the last invocation, when it made one.
Submitted == trace[Len(trace)]
BuildSucceeded == BuildRan /\ ~req.dry_run /\ raised = <<>>
BuildOps == {i \in DOMAIN trace : trace[i].op = "images.build"}
UuidOps == {i \in DOMAIN trace : trace[i].op = "uuid.uuid4"}

\* C1: with --dry-run, whatever the other flags, build makes no external call
\* (no client, no generated name, no submission), prints an empty line for
\* image-id and image-name, and for dockerfile prints a non-empty text that
\* contains the --from reference.
C1_DryRunCallsNothing ==
    DryRun =>
        /\ trace = <<>>
        /\ built = <<>>
        /\ raised = <<>>
        /\ Len(stdout) = 1
        /\ req.output \in {"image-id", "image-name"} => Printed = <<>>
        /\ req.output = "dockerfile" => Printed # <<>> /\ Contains(Printed, req.from_)

C1_Witness ==
    /\ Composed
    /\ req.from_ # FromDefault
    /\ Truthy(req.apt) /\ Truthy(req.with_kubectl)
    /\ req.name = Random
    /\ Contains(Printed, req.from_)

\* C2: a build that completes prints exactly one value, the one --output
\* selects (the image id, the image name or the Dockerfile text); the id of a
\* built image is printed as the runtime gave it, 'sha256:' included.
C2_PrintsTheSelectedValue ==
    (BuildRan /\ raised = <<>>) =>
        /\ Len(stdout) = 1
        /\ stdout[1].kind = "echo"
        /\ req.output = "dockerfile" => Printed[1] = BaseMarker
        /\ (req.output = "dockerfile" /\ ~req.dry_run) => Printed = Submitted.fileobj
        /\ (req.output = "image-id" /\ ~req.dry_run) =>
                /\ Printed = built[1].id
                /\ StartsWith(Printed, Sha256Prefix)
        /\ (req.output = "image-name" /\ ~req.dry_run) =>
                \E i \in DOMAIN built[1].tags : Printed = built[1].tags[i]
        /\ (req.output # "dockerfile" /\ req.dry_run) => Printed = <<>>

C2_Witness ==
    /\ BuildSucceeded
    /\ req.output = "image-id"
    /\ Truthy(req.apt)
    /\ Contains(Printed, Sha256Prefix)
    /\ Len(Printed) = Len(Sha256Prefix) + DigestLen

\* The place of a fragment's first piece in a text (0: not there).
BasePlace(text) == IndexOf(text, <<BaseMarker>>)
AptPlace(text) == IndexOf(text, <<AptMarker>>)
PipPlace(text) == IndexOf(text, <<PipMarker>>)
KubectlPlace(text) == IndexOf(text, <<KubectlMarker>>)
Before(a, b) == (a # 0 /\ b # 0) => a < b

\* C3: in the composed text the base fragment is first, and the fragments that
\* are present come in the order base, apt, pip, kubectl.
C3_FragmentOrder ==
    Composed =>
        /\ BasePlace(Printed) = 1
        /\ Before(BasePlace(Printed), AptPlace(Printed))
        /\ Before(BasePlace(Printed), PipPlace(Printed))
        /\ Before(BasePlace(Printed), KubectlPlace(Printed))
        /\ Before(AptPlace(Printed), PipPlace(Printed))
        /\ Before(AptPlace(Printed), KubectlPlace(Printed))
        /\ Before(PipPlace(Printed), KubectlPlace(Printed))

C3_Witness ==
    /\ Composed
    /\ 1 < AptPlace(Printed)
    /\ AptPlace(Printed) < PipPlace(Printed)
    /\ PipPlace(Printed) < KubectlPlace(Printed)

\* C4, as claimed: the apt and pip fragments are in the text exactly when
\* their option has a non-empty value, and the kubectl fragment exactly when
\* --with-kubectl was given.
C4_PresenceAsClaimed ==
    Composed =>
        /\ AptPlace(Printed) # 0 <=> Truthy(req.apt)
        /\ PipPlace(Printed) # 0 <=> Truthy(req.pip3)
        /\ KubectlPlace(Printed) # 0 <=> req.with_kubectl # None

\* C4, amended: each of the three fragments is in the text exactly when its
\* option was given with a non-empty value; the pip fragment does not depend
\* on the apt packages.
C4_FragmentPresence ==
    Composed =>
        /\ AptPlace(Printed) # 0 <=> Truthy(req.apt)
        /\ PipPlace(Printed) # 0 <=> Truthy(req.pip3)
        /\ KubectlPlace(Printed) # 0 <=> Truthy(req.with_kubectl)

C4_Witness ==
    /\ Composed
    /\ req.apt = None
    /\ Truthy(req.pip3)
    /\ PipPlace(Printed) # 0
    /\ AptPlace(Printed) = 0

\* C5: for --with-kubectl=latest the kubectl fragment holds the command that
\* looks the stable release up when the image is built, and composing calls
\* nothing; for another version V it holds the release URL with 'v' and V, and
\* no lookup command.
C5_KubectlUrl ==
    (Composed /\ Truthy(req.with_kubectl)) =>
        LET fragment == Drop(Printed, KubectlPlace(Printed) - 1) IN
        /\ KubectlPlace(Printed) # 0
        /\ req.with_kubectl[1] = Latest =>
                /\ Contains(fragment, <<ReleaseBase, StableLookup, KubectlPath>>)
                /\ trace = <<>>
        /\ req.with_kubectl[1] # Latest =>
                /\ Contains(fragment, <<ReleaseBase, "v">> \o req.with_kubectl[1] \o <<KubectlPath>>)
                /\ ~Contains(fragment, <<StableLookup>>)

C5_Witness ==
    /\ Composed
    /\ req.with_kubectl = Some(<<"1.17.0">>)
    /\ Contains(Printed, <<"v", "1.17.0">>)
    /\ ~Contains(Printed, <<StableLookup>>)

ListRan == cmd = "list" /\ raised = <<>>
\* The images of the store that carry the marker label, in the store's order.
Marked == SelectSeq(images, LAMBDA im : MarkerLabel \in im.labels)
IsMessage(out) == out.kind = "echo" /\ out.text = NoImagesMessage
IsTable(out) == out.kind = "table" /\ out.text = Headers

\* C6: list prints the 'no images' message, and no table, exactly when the
\* runtime holds no image with the marker label; otherwise it prints one table
\* with one (id, tags) row per such image, in the runtime's order, and no
\* message.
C6_MessageOrTable ==
    ListRan =>
        /\ Len(stdout) = 1
        /\ IsMessage(stdout[1]) <=> Marked = <<>>
        /\ IsTable(stdout[1]) <=> Marked # <<>>
        /\ IsTable(stdout[1]) =>
                /\ Len(stdout[1].rows) = Len(Marked)
                /\ \A i \in DOMAIN Marked :
                        /\ stdout[1].rows[i][2] = Marked[i].tags
                        /\ stdout[1].rows[i][1] \in {Marked[i].id, ShortId(Marked[i].id)}

\* The store holds an image, none with the label: the message, no table.
C6_Witness ==
    /\ ListRan
    /\ images # <<>>
    /\ Marked = <<>>
    /\ IsMessage(stdout[1])

\* The short form of an identifier: the digest's first ShortLen characters.
IsShortForm(shown, id) ==
    /\ Len(shown) = ShortLen
    /\ shown = SubSeq(id, Len(Sha256Prefix) + 1, Len(Sha256Prefix) + ShortLen)

\* C7: list shows the short identifier by default and when --short / -s is
\* passed; it shows the full identifier only on request.
C7_ShortFlagShortens ==
    (ListRan /\ IsTable(stdout[1])) =>
        \A i \in DOMAIN Marked :
            /\ ~req.flag => IsShortForm(stdout[1].rows[i][1], Marked[i].id)
            /\ req.flag => IsShortForm(stdout[1].rows[i][1], Marked[i].id)

\* C8: when the build call ends with an error, that error leaves the handler
\* as it is, the build was called once, nothing is printed and the exit status
\* is not 0.
C8_BuildErrorPropagates ==
    (BuildRan /\ trace # <<>> /\ Submitted.err # "") =>
        /\ Submitted.op = "images.build"
        /\ raised = <<Submitted.err>>
        /\ Cardinality(BuildOps) = 1
        /\ stdout = <<>>
        /\ built = <<>>
        /\ ExitCode # 0

C8_Witness ==
    /\ BuildRan
    /\ ~req.dry_run
    /\ req.output = "dockerfile"
    /\ raised = <<"docker.errors.BuildError">>
    /\ stdout = <<>>

\* C9: in a build that is not a dry run, with the name 'random' two uuids are
\* drawn, one after the other, right before the build call, and the tag
\* submitted is 'dug-', the first 8 characters of the first, ':' and the first
\* 8 characters of the second; with another name the tag submitted is that
\* name and no uuid is drawn.  A dry run draws none.
C9_SubmittedTag ==
    BuildRan =>
        /\ req.dry_run => UuidOps = {}
        /\ (~req.dry_run /\ req.name # Random) =>
                /\ UuidOps = {}
                /\ BuildOps = {Len(trace)}
                /\ Submitted.val = req.name
        /\ (~req.dry_run /\ req.name = Random) =>
                /\ BuildOps = {Len(trace)}
                /\ UuidOps = {Len(trace) - 2, Len(trace) - 1}
                /\ Submitted.val = <<"dug-">> \o SubSeq(trace[Len(trace) - 2].val, 1, NameLen)
                                    \o <<":">> \o SubSeq(trace[Len(trace) - 1].val, 1, NameLen)
                /\ Len(Submitted.val) = 2 * NameLen + 2

\* A random name whose two parts differ.
C9_Witness ==
    /\ BuildSucceeded
    /\ req.name = Random
    /\ trace[2].val # trace[3].val
    /\ Submitted.val # Random
    /\ built[1].tags = <<Submitted.val>>

\* The image of the store that the build answered with.
BuiltInStore == CHOOSE i \in DOMAIN images : images[i].id = built[1].id

\* C10: after a build, image-name prints the first tag the runtime reports for
\* the built image: the submitted name when the runtime reports it first,
\* another name when the image carries an older tag first.
C10_PrintsFirstReportedTag ==
    (BuildSucceeded /\ req.output = "image-name") =>
        /\ \E i \in DOMAIN images : images[i].id = built[1].id
        /\ images[BuiltInStore].tags = built[1].tags
        /\ \E i \in DOMAIN built[1].tags : built[1].tags[i] = Submitted.val
        /\ Printed = Head(images[BuiltInStore].tags)
        /\ Printed = Submitted.val <=> Head(built[1].tags) = Submitted.val

\* The image was built before under another name, which the runtime reports
\* first: the name printed is not the name submitted.
C10_Witness ==
    /\ BuildSucceeded
    /\ req.output = "image-name"
    /\ runs = 2
    /\ Len(built[1].tags) = 2
    /\ built[1].tags[2] = Submitted.val
    /\ Printed = built[1].tags[1]
    /\ Printed # Submitted.val

====
